---- MODULE Spec2Model ----
(***************************************************************************)
(* The MLS group state machine of OpenChat.Native (src/group.rs): key      *)
(* schedule, group lifecycle, membership/commit protocol and messaging,    *)
(* for a small set of parties that exchange serialized artifacts.          *)
(*                                                                         *)
(* Secrets are terms: SHA-256 is a free constructor (injective, without    *)
(* fixed points), OsRng returns values that never repeat.  Where the code  *)
(* indexes the bytes of a secret (the XOR cipher) a term is expanded to    *)
(* its bytes by SecretBytes.  u64 arithmetic is kept modulo 2^EpochBits.   *)
(***************************************************************************)
EXTENDS Integers, Sequences, FiniteSets, TLC

\* ------------------------------------------------------------------ bounds
\* width of the epoch counter in the model (u64 in the code, scaled down)
EpochBits == 2
\* longest chain of derive_next_secret applications explored
MaxChain == 2

\* ------------------------------------------------------- program constants
\* length of a SHA-256 digest and of the OsRng secrets
SecretLen == 32

U64_MODULUS == 2 ^ EpochBits
U64_MAX == U64_MODULUS - 1

\* ------------------------------------------------------------ input sets
Party == {"A", "B"}
Identity == {"A", "B"}
Names == {"Test"}
\* plaintexts (UTF-8 bytes): "", "é", and one byte more than a secret
LongText == [i \in 1..(SecretLen + 1) |-> 97 + (i % 26)]
Texts == { <<>>, <<195, 169>>, LongText }
\* the plaintext "hi"
ShortTexts == { <<104, 105>> }

VARIABLES groups, outbox, last, overflow_checks, rng, removals, accepted,
          LAST_ERROR, threads

\* groups: each party's Group; outbox: the artifact each party last returned;
\* last: the latest call and its result; removals, accepted: what was removed
\* from and what was applied to each Group so far
\* LAST_ERROR: the last-error slot of the FFI layer; threads: where each
\* calling thread stands, the error of its call and what it read back
vars == <<groups, outbox, last, overflow_checks, rng, removals, accepted,
          LAST_ERROR, threads>>

\* the state of the FFI layer, and the state of the Groups
ffi == <<LAST_ERROR, threads>>
core == <<groups, outbox, last, overflow_checks, rng, removals, accepted>>

\* ---------------------------------------------------------------- results
NoGroup == [absent |-> TRUE]
Ok == [kind |-> "Ok", msg |-> <<>>]
Err(k, m) == [kind |-> k, msg |-> m]
Panic(m) == [kind |-> "Panic", msg |-> m]
NotMember == Err("NotMember", <<>>)
AlreadyMember == Err("AlreadyMember", <<>>)
MemberNotFound(id) == Err("MemberNotFound", id)
InvalidState(m) == Err("InvalidState", m)
SerializationError(m) == Err("SerializationError", m)
ErrorKinds == {"NotMember", "AlreadyMember", "MemberNotFound", "InvalidState",
               "SerializationError"}

\* an operation's outcome: its result, the Group it leaves, what it returns
Outcome(r, g, o) == [res |-> r, group |-> g, out |-> o]

\* ------------------------------------------------------------ key schedule
\* bytes that did not come out of the key schedule (deserialized input)
RawBytes(b) == [bytes |-> b]
\* 32 bytes from OsRng; draw k never repeats
OsRng(k) == [rand |-> k]
\* SHA-256 over the concatenation of the parts fed to the hasher
Sha256(parts) == [sha256 |-> parts]

RECURSIVE LeBytes(_, _)
LeBytes(e, n) ==
    IF n = 0 THEN <<>> ELSE <<e % 256>> \o LeBytes(e \div 256, n - 1)

\* u64::to_le_bytes: eight bytes, least significant first
to_le_bytes(e) == LeBytes(e, 8)

derive_next_secret(current_secret) ==
    Sha256(<<current_secret, "mls_next_secret">>)

derive_application_secret(group_secret, epoch) ==
    Sha256(<<group_secret, "mls_application_secret", to_le_bytes(epoch)>>)

RECURSIVE ChainLen(_)
ChainLen(s) ==
    IF "sha256" \in DOMAIN s THEN 1 + ChainLen(s.sha256[1]) ELSE 0

\* a number standing for the digest of a term
RECURSIVE TermCode(_)
TermCode(s) ==
    IF "rand" \in DOMAIN s THEN 3 + s.rand
    ELSE IF "bytes" \in DOMAIN s THEN Len(s.bytes)
    ELSE LET parts == s.sha256
             inner == TermCode(parts[1])
         IN  IF Len(parts) = 2
             THEN ((inner * 31) + 7) % 241
             ELSE ((inner * 37) + (parts[3][1] * 11) + 5) % 241

\* the bytes of a secret: a digest and an OsRng draw have SecretLen bytes
SecretBytes(s) ==
    IF "bytes" \in DOMAIN s THEN s.bytes
    ELSE [i \in 1..SecretLen |-> ((TermCode(s) * ((2 * i) + 1)) + i) % 256]

\* ------------------------------------------------------------- byte helpers
RECURSIVE Xor(_, _)
Xor(a, b) ==
    IF a = 0 /\ b = 0 THEN 0
    ELSE (((a % 2) + (b % 2)) % 2) + (2 * Xor(a \div 2, b \div 2))

\* byte ^ secret[i % secret.len()] for every byte (i counts from 0)
XorWithSecret(bytes, secret) ==
    [j \in 1..Len(bytes) |-> Xor(bytes[j], secret[((j - 1) % Len(secret)) + 1])]

IsCont(b) == b >= 128 /\ b <= 191

\* String::from_utf8: TRUE when the bytes are well-formed UTF-8
RECURSIVE Utf8Valid(_)
Utf8Valid(b) ==
    IF Len(b) = 0 THEN TRUE
    ELSE LET c == b[1]
             n == Len(b)
         IN
      IF c < 128 THEN Utf8Valid(SubSeq(b, 2, n))
      ELSE IF c >= 194 /\ c <= 223
        THEN n >= 2 /\ IsCont(b[2]) /\ Utf8Valid(SubSeq(b, 3, n))
      ELSE IF c >= 224 /\ c <= 239
        THEN /\ n >= 3
             /\ IsCont(b[2]) /\ IsCont(b[3])
             /\ (c = 224 => b[2] >= 160)
             /\ (c = 237 => b[2] <= 159)
             /\ Utf8Valid(SubSeq(b, 4, n))
      ELSE IF c >= 240 /\ c <= 244
        THEN /\ n >= 4
             /\ IsCont(b[2]) /\ IsCont(b[3]) /\ IsCont(b[4])
             /\ (c = 240 => b[2] >= 144)
             /\ (c = 244 => b[2] <= 143)
             /\ Utf8Valid(SubSeq(b, 5, n))
      ELSE FALSE

\* ---------------------------------------------------------- serialization
MlsGroupFields == <<"group_id", "name", "epoch", "members", "group_secret",
                    "application_secret">>
WelcomeDataFields == <<"group_id", "group_name", "epoch", "members",
                       "group_secrets", "encrypted_group_info">>
CommitDataFields == <<"group_id", "epoch", "removed_members", "added_members">>
EncryptedMessageFields == <<"sender_public_key", "epoch", "ciphertext">>

\* bytes that are not JSON
NotJson == [syntax |-> "invalid", pairs |-> <<>>]
\* bytes of a JSON object: its key/value pairs in order
JsonObject(p) == [syntax |-> "object", pairs |-> p]

\* serde_json::to_vec of a struct: one pair per field, in declaration order
to_vec(value, fields) ==
    JsonObject([i \in 1..Len(fields) |-> <<fields[i], value[fields[i]]>>])

KeyCount(doc, f) ==
    Cardinality({i \in 1..Len(doc.pairs) : doc.pairs[i][1] = f})
Lookup(doc, f) ==
    doc.pairs[CHOOSE i \in 1..Len(doc.pairs) : doc.pairs[i][1] = f][2]
FieldSet(fields) == {fields[i] : i \in 1..Len(fields)}

\* serde_json::from_slice into a struct: every field exactly once (unknown
\* keys are ignored) and the epoch a u64
from_slice(doc, fields) ==
    IF doc.syntax # "object"
      THEN [ok |-> FALSE, value |-> <<>>]
    ELSE IF \E f \in FieldSet(fields) : KeyCount(doc, f) # 1
      THEN [ok |-> FALSE, value |-> <<>>]
    ELSE IF Lookup(doc, "epoch") < 0 \/ Lookup(doc, "epoch") > U64_MAX
      THEN [ok |-> FALSE, value |-> <<>>]
    ELSE [ok |-> TRUE, value |-> [f \in FieldSet(fields) |-> Lookup(doc, f)]]

\* ------------------------------------------------------------ Vec helpers
contains(members, id) == \E i \in 1..Len(members) : members[i] = id
position(members, id) ==
    CHOOSE i \in 1..Len(members) :
        members[i] = id /\ \A j \in 1..(i - 1) : members[j] # id
remove(members, pos) ==
    SubSeq(members, 1, pos - 1) \o SubSeq(members, pos + 1, Len(members))
retain(members, id) == SelectSeq(members, LAMBDA m : m # id)

\* self.epoch + 1 on a u64: wraps when overflow checks are off
AddOne(e) == (e + 1) % U64_MODULUS
Overflows(e) == e = U64_MAX

\* -------------------------------------------------------------- MlsGroup
MlsGroup(gid, name, epoch, members, gs, as) ==
    [group_id |-> gid, name |-> name, epoch |-> epoch, members |-> members,
     group_secret |-> gs, application_secret |-> as]

create(name, creator_public_key, r) ==
    LET group_id == OsRng(r)
        group_secret == OsRng(r + 1)
        application_secret == derive_application_secret(group_secret, 0)
    IN  Outcome(Ok,
                MlsGroup(group_id, name, 0, <<creator_public_key>>,
                         group_secret, application_secret),
                <<>>)

\* from_welcome without the membership test
from_welcome_unchecked(welcome, joiner_public_key) ==
    LET application_secret ==
            derive_application_secret(welcome.group_secrets, welcome.epoch)
    IN  Outcome(Ok,
                MlsGroup(welcome.group_id, welcome.group_name,
                         welcome.epoch, welcome.members,
                         welcome.group_secrets, application_secret),
                <<>>)

from_welcome(welcome, joiner_public_key) ==
    IF ~contains(welcome.members, joiner_public_key)
      THEN Outcome(NotMember, NoGroup, <<>>)
    ELSE LET application_secret ==
                 derive_application_secret(welcome.group_secrets, welcome.epoch)
         IN  Outcome(Ok,
                     MlsGroup(welcome.group_id, welcome.group_name,
                              welcome.epoch, welcome.members,
                              welcome.group_secrets, application_secret),
                     <<>>)

\* the epoch and secret updates shared by the three issuing operations
Advance(g) ==
    LET e == AddOne(g.epoch)
        gs == derive_next_secret(g.group_secret)
    IN  [g EXCEPT !.epoch = e, !.group_secret = gs,
                  !.application_secret = derive_application_secret(gs, e)]

\* add_member without the membership test
add_member_unchecked(g, member_public_key) ==
    LET pushed == [g EXCEPT !.members = Append(@, member_public_key)] IN
      IF overflow_checks /\ Overflows(g.epoch)
        THEN Outcome(Panic("attempt to add with overflow"), pushed, <<>>)
      ELSE LET self == Advance(pushed)
               welcome == [group_id |-> self.group_id,
                           group_name |-> self.name,
                           epoch |-> self.epoch,
                           members |-> self.members,
                           group_secrets |-> self.group_secret,
                           encrypted_group_info |-> <<>>]
           IN  Outcome(Ok, self, to_vec(welcome, WelcomeDataFields))

\* add_member building the Welcome from the secret before the update
add_member_old_secret(g, member_public_key) ==
    IF contains(g.members, member_public_key)
      THEN Outcome(AlreadyMember, g, <<>>)
    ELSE LET pushed == [g EXCEPT !.members = Append(@, member_public_key)] IN
      IF overflow_checks /\ Overflows(g.epoch)
        THEN Outcome(Panic("attempt to add with overflow"), pushed, <<>>)
      ELSE LET self == Advance(pushed)
               welcome == [group_id |-> self.group_id,
                           group_name |-> self.name,
                           epoch |-> self.epoch,
                           members |-> self.members,
                           group_secrets |-> g.group_secret,
                           encrypted_group_info |-> <<>>]
           IN  Outcome(Ok, self, to_vec(welcome, WelcomeDataFields))

\* add_member building the Welcome before the epoch and the secrets move
add_member_early_welcome(g, member_public_key) ==
    IF contains(g.members, member_public_key)
      THEN Outcome(AlreadyMember, g, <<>>)
    ELSE LET pushed == [g EXCEPT !.members = Append(@, member_public_key)] IN
      IF overflow_checks /\ Overflows(g.epoch)
        THEN Outcome(Panic("attempt to add with overflow"), pushed, <<>>)
      ELSE LET self == Advance(pushed)
               welcome == [group_id |-> pushed.group_id,
                           group_name |-> pushed.name,
                           epoch |-> pushed.epoch,
                           members |-> pushed.members,
                           group_secrets |-> pushed.group_secret,
                           encrypted_group_info |-> <<>>]
           IN  Outcome(Ok, self, to_vec(welcome, WelcomeDataFields))

add_member(g, member_public_key) ==
    IF contains(g.members, member_public_key)
      THEN Outcome(AlreadyMember, g, <<>>)
    ELSE LET pushed == [g EXCEPT !.members = Append(@, member_public_key)] IN
      IF overflow_checks /\ Overflows(g.epoch)
        THEN Outcome(Panic("attempt to add with overflow"), pushed, <<>>)
      ELSE LET self == Advance(pushed)
               welcome == [group_id |-> self.group_id,
                           group_name |-> self.name,
                           epoch |-> self.epoch,
                           members |-> self.members,
                           group_secrets |-> self.group_secret,
                           encrypted_group_info |-> <<>>]
           IN  Outcome(Ok, self, to_vec(welcome, WelcomeDataFields))

\* remove_member keeping the group_secret it had
remove_member_same_secret(g, member_public_key) ==
    IF ~contains(g.members, member_public_key)
      THEN Outcome(MemberNotFound(member_public_key), g, <<>>)
    ELSE LET pos == position(g.members, member_public_key)
             removed == [g EXCEPT !.members = remove(@, pos)] IN
      IF overflow_checks /\ Overflows(g.epoch)
        THEN Outcome(Panic("attempt to add with overflow"), removed, <<>>)
      ELSE LET e == AddOne(g.epoch)
               self == [removed EXCEPT
                          !.epoch = e,
                          !.application_secret =
                              derive_application_secret(g.group_secret, e)]
               commit == [group_id |-> self.group_id,
                          epoch |-> self.epoch,
                          removed_members |-> <<member_public_key>>,
                          added_members |-> <<>>]
           IN  Outcome(Ok, self, to_vec(commit, CommitDataFields))

\* remove_member taking an absent identity for one already removed
remove_member_absent_ok(g, member_public_key) ==
    LET removed == [g EXCEPT !.members = retain(@, member_public_key)] IN
      IF overflow_checks /\ Overflows(g.epoch)
        THEN Outcome(Panic("attempt to add with overflow"), removed, <<>>)
      ELSE LET self == Advance(removed)
               commit == [group_id |-> self.group_id,
                          epoch |-> self.epoch,
                          removed_members |-> <<member_public_key>>,
                          added_members |-> <<>>]
           IN  Outcome(Ok, self, to_vec(commit, CommitDataFields))

remove_member(g, member_public_key) ==
    IF ~contains(g.members, member_public_key)
      THEN Outcome(MemberNotFound(member_public_key), g, <<>>)
    ELSE LET pos == position(g.members, member_public_key)
             removed == [g EXCEPT !.members = remove(@, pos)] IN
      IF overflow_checks /\ Overflows(g.epoch)
        THEN Outcome(Panic("attempt to add with overflow"), removed, <<>>)
      ELSE LET self == Advance(removed)
               commit == [group_id |-> self.group_id,
                          epoch |-> self.epoch,
                          removed_members |-> <<member_public_key>>,
                          added_members |-> <<>>]
           IN  Outcome(Ok, self, to_vec(commit, CommitDataFields))

update_keys(g) ==
    IF overflow_checks /\ Overflows(g.epoch)
      THEN Outcome(Panic("attempt to add with overflow"), g, <<>>)
    ELSE LET self == Advance(g)
             commit == [group_id |-> self.group_id,
                        epoch |-> self.epoch,
                        removed_members |-> <<>>,
                        added_members |-> <<>>]
         IN  Outcome(Ok, self, to_vec(commit, CommitDataFields))

RECURSIVE ApplyRemoved(_, _)
ApplyRemoved(members, removed_members) ==
    IF removed_members = <<>> THEN members
    ELSE ApplyRemoved(retain(members, Head(removed_members)),
                      Tail(removed_members))

RECURSIVE ApplyAdded(_, _)
ApplyAdded(members, added_members) ==
    IF added_members = <<>> THEN members
    ELSE ApplyAdded(IF contains(members, Head(added_members))
                      THEN members
                      ELSE Append(members, Head(added_members)),
                    Tail(added_members))

\* process_commit applying the membership changes before the epoch test
process_commit_early_apply(g, commit_data) ==
    LET parsed == from_slice(commit_data, CommitDataFields)
        commit == parsed.value
    IN
    IF ~parsed.ok
      THEN Outcome(SerializationError("CommitData"), g, <<>>)
    ELSE IF commit.group_id # g.group_id
      THEN Outcome(InvalidState(<<"Group ID mismatch">>), g, <<>>)
    ELSE LET members == ApplyAdded(ApplyRemoved(g.members,
                                                commit.removed_members),
                                   commit.added_members)
             applied == [g EXCEPT !.members = members]
             gs == derive_next_secret(g.group_secret)
         IN
      IF overflow_checks /\ Overflows(g.epoch)
        THEN Outcome(Panic("attempt to add with overflow"), applied, <<>>)
      ELSE IF commit.epoch # AddOne(g.epoch)
        THEN Outcome(InvalidState(<<"Unexpected epoch", AddOne(g.epoch),
                                    commit.epoch>>), applied, <<>>)
      ELSE Outcome(Ok,
                   [applied EXCEPT
                      !.epoch = commit.epoch,
                      !.group_secret = gs,
                      !.application_secret =
                          derive_application_secret(gs, commit.epoch)],
                   <<>>)

\* process_commit without the group_id test
process_commit_any_group(g, commit_data) ==
    LET parsed == from_slice(commit_data, CommitDataFields)
        commit == parsed.value
    IN
    IF ~parsed.ok
      THEN Outcome(SerializationError("CommitData"), g, <<>>)
    ELSE IF overflow_checks /\ Overflows(g.epoch)
      THEN Outcome(Panic("attempt to add with overflow"), g, <<>>)
    ELSE IF commit.epoch # AddOne(g.epoch)
      THEN Outcome(InvalidState(<<"Unexpected epoch", AddOne(g.epoch),
                                  commit.epoch>>), g, <<>>)
    ELSE LET members == ApplyAdded(ApplyRemoved(g.members,
                                                commit.removed_members),
                                   commit.added_members)
             gs == derive_next_secret(g.group_secret)
         IN  Outcome(Ok,
                     [g EXCEPT !.members = members,
                               !.epoch = commit.epoch,
                               !.group_secret = gs,
                               !.application_secret =
                                   derive_application_secret(gs, commit.epoch)],
                     <<>>)

\* process_commit keeping the group_secret it had
process_commit_keep_secret(g, commit_data) ==
    LET parsed == from_slice(commit_data, CommitDataFields)
        commit == parsed.value
    IN
    IF ~parsed.ok
      THEN Outcome(SerializationError("CommitData"), g, <<>>)
    ELSE IF commit.group_id # g.group_id
      THEN Outcome(InvalidState(<<"Group ID mismatch">>), g, <<>>)
    ELSE IF overflow_checks /\ Overflows(g.epoch)
      THEN Outcome(Panic("attempt to add with overflow"), g, <<>>)
    ELSE IF commit.epoch # AddOne(g.epoch)
      THEN Outcome(InvalidState(<<"Unexpected epoch", AddOne(g.epoch),
                                  commit.epoch>>), g, <<>>)
    ELSE LET members == ApplyAdded(ApplyRemoved(g.members,
                                                commit.removed_members),
                                   commit.added_members)
         IN  Outcome(Ok,
                     [g EXCEPT !.members = members,
                               !.epoch = commit.epoch,
                               !.application_secret =
                                   derive_application_secret(g.group_secret,
                                                             commit.epoch)],
                     <<>>)

\* process_commit taking over the group_id of the Commit
process_commit_adopt_group(g, commit_data) ==
    LET parsed == from_slice(commit_data, CommitDataFields)
        commit == parsed.value
    IN
    IF ~parsed.ok
      THEN Outcome(SerializationError("CommitData"), g, <<>>)
    ELSE IF overflow_checks /\ Overflows(g.epoch)
      THEN Outcome(Panic("attempt to add with overflow"), g, <<>>)
    ELSE IF commit.epoch # AddOne(g.epoch)
      THEN Outcome(InvalidState(<<"Unexpected epoch", AddOne(g.epoch),
                                  commit.epoch>>), g, <<>>)
    ELSE LET members == ApplyAdded(ApplyRemoved(g.members,
                                                commit.removed_members),
                                   commit.added_members)
             gs == derive_next_secret(g.group_secret)
         IN  Outcome(Ok,
                     [g EXCEPT !.group_id = commit.group_id,
                               !.members = members,
                               !.epoch = commit.epoch,
                               !.group_secret = gs,
                               !.application_secret =
                                   derive_application_secret(gs, commit.epoch)],
                     <<>>)

\* process_commit taking a Commit for the current epoch as well
process_commit_replayable(g, commit_data) ==
    LET parsed == from_slice(commit_data, CommitDataFields)
        commit == parsed.value
    IN
    IF ~parsed.ok
      THEN Outcome(SerializationError("CommitData"), g, <<>>)
    ELSE IF commit.group_id # g.group_id
      THEN Outcome(InvalidState(<<"Group ID mismatch">>), g, <<>>)
    ELSE IF overflow_checks /\ Overflows(g.epoch)
      THEN Outcome(Panic("attempt to add with overflow"), g, <<>>)
    ELSE IF commit.epoch # AddOne(g.epoch) /\ commit.epoch # g.epoch
      THEN Outcome(InvalidState(<<"Unexpected epoch", AddOne(g.epoch),
                                  commit.epoch>>), g, <<>>)
    ELSE LET members == ApplyAdded(ApplyRemoved(g.members,
                                                commit.removed_members),
                                   commit.added_members)
             gs == derive_next_secret(g.group_secret)
         IN  Outcome(Ok,
                     [g EXCEPT !.members = members,
                               !.epoch = commit.epoch,
                               !.group_secret = gs,
                               !.application_secret =
                                   derive_application_secret(gs, commit.epoch)],
                     <<>>)

\* process_commit appending every added identity, present or not
process_commit_push_all(g, commit_data) ==
    LET parsed == from_slice(commit_data, CommitDataFields)
        commit == parsed.value
    IN
    IF ~parsed.ok
      THEN Outcome(SerializationError("CommitData"), g, <<>>)
    ELSE IF commit.group_id # g.group_id
      THEN Outcome(InvalidState(<<"Group ID mismatch">>), g, <<>>)
    ELSE IF overflow_checks /\ Overflows(g.epoch)
      THEN Outcome(Panic("attempt to add with overflow"), g, <<>>)
    ELSE IF commit.epoch # AddOne(g.epoch)
      THEN Outcome(InvalidState(<<"Unexpected epoch", AddOne(g.epoch),
                                  commit.epoch>>), g, <<>>)
    ELSE LET members == ApplyRemoved(g.members, commit.removed_members)
                            \o commit.added_members
             gs == derive_next_secret(g.group_secret)
         IN  Outcome(Ok,
                     [g EXCEPT !.members = members,
                               !.epoch = commit.epoch,
                               !.group_secret = gs,
                               !.application_secret =
                                   derive_application_secret(gs, commit.epoch)],
                     <<>>)

process_commit(g, commit_data) ==
    LET parsed == from_slice(commit_data, CommitDataFields)
        commit == parsed.value
    IN
    IF ~parsed.ok
      THEN Outcome(SerializationError("CommitData"), g, <<>>)
    ELSE IF commit.group_id # g.group_id
      THEN Outcome(InvalidState(<<"Group ID mismatch">>), g, <<>>)
    ELSE IF overflow_checks /\ Overflows(g.epoch)
      THEN Outcome(Panic("attempt to add with overflow"), g, <<>>)
    ELSE IF commit.epoch # AddOne(g.epoch)
      THEN Outcome(InvalidState(<<"Unexpected epoch", AddOne(g.epoch),
                                  commit.epoch>>), g, <<>>)
    ELSE LET members == ApplyAdded(ApplyRemoved(g.members,
                                                commit.removed_members),
                                   commit.added_members)
             gs == derive_next_secret(g.group_secret)
         IN  Outcome(Ok,
                     [g EXCEPT !.members = members,
                               !.epoch = commit.epoch,
                               !.group_secret = gs,
                               !.application_secret =
                                   derive_application_secret(gs, commit.epoch)],
                     <<>>)

\* encrypt_message stepping the application_secret after each message
encrypt_message_ratchet(g, plaintext, sender_public_key) ==
    IF ~contains(g.members, sender_public_key)
      THEN Outcome(NotMember, g, <<>>)
    ELSE LET secret == SecretBytes(g.application_secret) IN
      IF Len(plaintext) > 0 /\ Len(secret) = 0
        THEN Outcome(Panic("remainder with a divisor of zero"), g, <<>>)
      ELSE LET message == [sender_public_key |-> sender_public_key,
                           epoch |-> g.epoch,
                           ciphertext |-> XorWithSecret(plaintext, secret)]
           IN  Outcome(Ok,
                       [g EXCEPT !.application_secret =
                                     derive_next_secret(@)],
                       to_vec(message, EncryptedMessageFields))

encrypt_message(g, plaintext, sender_public_key) ==
    IF ~contains(g.members, sender_public_key)
      THEN Outcome(NotMember, g, <<>>)
    ELSE LET secret == SecretBytes(g.application_secret) IN
      IF Len(plaintext) > 0 /\ Len(secret) = 0
        THEN Outcome(Panic("remainder with a divisor of zero"), g, <<>>)
      ELSE LET message == [sender_public_key |-> sender_public_key,
                           epoch |-> g.epoch,
                           ciphertext |-> XorWithSecret(plaintext, secret)]
           IN  Outcome(Ok, g, to_vec(message, EncryptedMessageFields))

\* decrypt_message without the membership test
decrypt_message_unchecked(g, ciphertext_data) ==
    LET parsed == from_slice(ciphertext_data, EncryptedMessageFields)
        message == parsed.value
    IN
    IF ~parsed.ok
      THEN Outcome(SerializationError("EncryptedMessage"), g, <<>>)
    ELSE LET secret == SecretBytes(g.application_secret) IN
      IF Len(message.ciphertext) > 0 /\ Len(secret) = 0
        THEN Outcome(Panic("remainder with a divisor of zero"), g, <<>>)
      ELSE LET plaintext_bytes == XorWithSecret(message.ciphertext, secret) IN
        IF ~Utf8Valid(plaintext_bytes)
          THEN Outcome(SerializationError("FromUtf8Error"), g, <<>>)
        ELSE Outcome(Ok, g, <<message.sender_public_key, plaintext_bytes,
                               message.epoch>>)

\* decrypt_message refusing a message of another epoch
decrypt_message_epoch_checked(g, ciphertext_data) ==
    LET parsed == from_slice(ciphertext_data, EncryptedMessageFields)
        message == parsed.value
    IN
    IF ~parsed.ok
      THEN Outcome(SerializationError("EncryptedMessage"), g, <<>>)
    ELSE IF ~contains(g.members, message.sender_public_key)
      THEN Outcome(NotMember, g, <<>>)
    ELSE IF message.epoch # g.epoch
      THEN Outcome(InvalidState(<<"Unexpected epoch", g.epoch,
                                  message.epoch>>), g, <<>>)
    ELSE LET secret == SecretBytes(g.application_secret) IN
      IF Len(message.ciphertext) > 0 /\ Len(secret) = 0
        THEN Outcome(Panic("remainder with a divisor of zero"), g, <<>>)
      ELSE LET plaintext_bytes == XorWithSecret(message.ciphertext, secret) IN
        IF ~Utf8Valid(plaintext_bytes)
          THEN Outcome(SerializationError("FromUtf8Error"), g, <<>>)
        ELSE Outcome(Ok, g, <<message.sender_public_key, plaintext_bytes,
                               message.epoch>>)

decrypt_message(g, ciphertext_data) ==
    LET parsed == from_slice(ciphertext_data, EncryptedMessageFields)
        message == parsed.value
    IN
    IF ~parsed.ok
      THEN Outcome(SerializationError("EncryptedMessage"), g, <<>>)
    ELSE IF ~contains(g.members, message.sender_public_key)
      THEN Outcome(NotMember, g, <<>>)
    ELSE LET secret == SecretBytes(g.application_secret) IN
      IF Len(message.ciphertext) > 0 /\ Len(secret) = 0
        THEN Outcome(Panic("remainder with a divisor of zero"), g, <<>>)
      ELSE LET plaintext_bytes == XorWithSecret(message.ciphertext, secret) IN
        IF ~Utf8Valid(plaintext_bytes)
          THEN Outcome(SerializationError("FromUtf8Error"), g, <<>>)
        ELSE Outcome(Ok, g, <<message.sender_public_key, plaintext_bytes,
                               message.epoch>>)

\* export_state leaving the application_secret out of the state bytes
export_state_skip_secret(g) ==
    Outcome(Ok, g, to_vec(g, SubSeq(MlsGroupFields, 1, 5)))

export_state(g) == Outcome(Ok, g, to_vec(g, MlsGroupFields))

import_state(state) ==
    LET parsed == from_slice(state, MlsGroupFields) IN
    IF ~parsed.ok
      THEN Outcome(SerializationError("MlsGroup"), NoGroup, <<>>)
    ELSE Outcome(Ok, parsed.value, <<>>)

\* ------------------------------------------------- inputs from outside
\* bytes all zero: a group id or secret that no OsRng draw produced
ForeignId == OsRng(0)

\* Welcomes not issued by add_member: repeated members, the largest epoch
ForgedWelcomes ==
    { to_vec([group_id |-> ForeignId, group_name |-> "Test", epoch |-> e,
              members |-> m, group_secrets |-> OsRng(0),
              encrypted_group_info |-> <<>>], WelcomeDataFields) :
        e \in {U64_MAX}, m \in {<<"B", "B">>, <<"A", "B">>} }

\* state bytes not written by export_state
TamperedStates ==
    { to_vec(MlsGroup(ForeignId, "Test", 0, <<"A", "A">>, RawBytes(<<>>),
                      RawBytes(<<>>)), MlsGroupFields),
      to_vec(MlsGroup(ForeignId, "Test", U64_MAX, <<"A", "B">>, OsRng(0),
                      derive_application_secret(OsRng(0), 0)),
             MlsGroupFields) }

\* Commits not issued by remove_member or update_keys
ForgedCommits(g) ==
    { to_vec([group_id |-> gid, epoch |-> e, removed_members |-> c[1],
              added_members |-> c[2]], CommitDataFields) :
        gid \in {g.group_id, OsRng(-1)},
        e \in {g.epoch, AddOne(g.epoch), U64_MODULUS},
        c \in { <<<<>>, <<"B", "B">>>>, <<<<"B", "B">>, <<"A">>>> } }

\* a forged Commit for the next epoch that names one member twice
NextEpochCommits(g) ==
    { to_vec([group_id |-> g.group_id, epoch |-> AddOne(g.epoch),
              removed_members |-> <<>>, added_members |-> <<"B", "B">>],
             CommitDataFields) }

ForgedMessages ==
    { to_vec([sender_public_key |-> "B", epoch |-> 0, ciphertext |-> <<200>>],
             EncryptedMessageFields) }

\* ------------------------------------------------------------- actions
Record(op, p, arg, o) ==
    [op |-> op, party |-> p, arg |-> arg, res |-> o.res, out |-> o.out]

\* no artifact
Nothing == [syntax |-> "none", pairs |-> <<>>]

\* the transport keeps the latest artifact each party returned; an earlier
\* one it still held is lost
Publish(p, o) ==
    IF o.res.kind = "Ok" THEN [outbox EXCEPT ![p] = o.out] ELSE outbox

\* the artifacts a party can be handed
InFlight == {outbox[q] : q \in Party} \ {Nothing}

CanAdvance(g) == ChainLen(g.group_secret) < MaxChain

Create(p) ==
    /\ groups[p] = NoGroup
    /\ \E name \in Names :
         LET o == create(name, p, rng) IN
         /\ groups' = [groups EXCEPT ![p] = o.group]
         /\ last' = Record("create", p, name, o)
    /\ rng' = rng + 2
    /\ UNCHANGED <<outbox, overflow_checks, removals, accepted, ffi>>

FromWelcome(p, welcomes) ==
    /\ groups[p] = NoGroup
    /\ \E bytes \in welcomes, joiner \in Identity :
         LET parsed == from_slice(bytes, WelcomeDataFields) IN
         /\ parsed.ok
         /\ LET o == from_welcome(parsed.value, joiner) IN
            /\ groups' = [groups EXCEPT ![p] = o.group]
            /\ last' = Record("from_welcome", p, <<bytes, joiner>>, o)
    /\ UNCHANGED <<outbox, overflow_checks, rng, removals, accepted, ffi>>

ImportState(p, states) ==
    /\ groups[p] = NoGroup
    /\ \E state \in states :
         LET o == import_state(state) IN
         /\ groups' = [groups EXCEPT ![p] = o.group]
         /\ last' = Record("import_state", p, state, o)
    /\ UNCHANGED <<outbox, overflow_checks, rng, removals, accepted, ffi>>

ExportState(p) ==
    /\ groups[p] # NoGroup
    /\ LET o == export_state(groups[p]) IN
       /\ groups' = [groups EXCEPT ![p] = o.group]
       /\ last' = Record("export_state", p, <<>>, o)
    /\ UNCHANGED <<outbox, overflow_checks, rng, removals, accepted, ffi>>

AddMember(p) ==
    /\ groups[p] # NoGroup
    /\ CanAdvance(groups[p])
    /\ \E id \in Identity :
         LET o == add_member(groups[p], id) IN
         /\ groups' = [groups EXCEPT ![p] = o.group]
         /\ last' = Record("add_member", p, id, o)
         /\ outbox' = Publish(p, o)
         /\ removals' = IF o.res.kind = "Ok"
                          THEN {r \in removals : r.who # id}
                          ELSE removals
    /\ UNCHANGED <<overflow_checks, rng, accepted, ffi>>

\* the party removed holds a Group in step with the issuer's
InStep(g, id) ==
    /\ id \in Party
    /\ groups[id] # NoGroup
    /\ groups[id].group_id = g.group_id
    /\ groups[id].epoch = g.epoch
    /\ groups[id].group_secret = g.group_secret

RemoveMember(p) ==
    /\ groups[p] # NoGroup
    /\ CanAdvance(groups[p])
    /\ \E id \in Identity :
         LET g == groups[p]
             o == remove_member(g, id) IN
         /\ groups' = [groups EXCEPT ![p] = o.group]
         /\ last' = Record("remove_member", p, id, o)
         /\ outbox' = Publish(p, o)
         /\ removals' =
              IF o.res.kind = "Ok" /\ id # p /\ InStep(g, id)
                THEN removals \cup
                       {[who |-> id,
                         group_secret |-> o.group.group_secret,
                         application_secret |-> o.group.application_secret]}
                ELSE removals
    /\ UNCHANGED <<overflow_checks, rng, accepted, ffi>>

UpdateKeys(p) ==
    /\ groups[p] # NoGroup
    /\ CanAdvance(groups[p])
    /\ LET o == update_keys(groups[p]) IN
       /\ groups' = [groups EXCEPT ![p] = o.group]
       /\ last' = Record("update_keys", p, <<>>, o)
       /\ outbox' = Publish(p, o)
    /\ UNCHANGED <<overflow_checks, rng, removals, accepted, ffi>>

ProcessCommit(p, commits) ==
    /\ groups[p] # NoGroup
    /\ CanAdvance(groups[p])
    /\ \E commit_data \in commits :
         LET o == process_commit(groups[p], commit_data) IN
         /\ groups' = [groups EXCEPT ![p] = o.group]
         /\ last' = Record("process_commit", p, commit_data, o)
    /\ UNCHANGED <<outbox, overflow_checks, rng, removals, accepted, ffi>>

\* process_commit with the record of the Commits each Group has applied; a
\* Commit that is refused is tried on a Group of any chain length
ProcessCommitRecorded(p, commits) ==
    /\ groups[p] # NoGroup
    /\ \E commit_data \in commits :
         LET o == process_commit(groups[p], commit_data) IN
         /\ o.res.kind \notin ErrorKinds => CanAdvance(groups[p])
         /\ groups' = [groups EXCEPT ![p] = o.group]
         /\ last' = Record("process_commit", p, commit_data, o)
         /\ accepted' = IF o.res.kind = "Ok"
                          THEN [accepted EXCEPT ![p] = @ \cup {commit_data}]
                          ELSE accepted
    /\ UNCHANGED <<outbox, overflow_checks, rng, removals, ffi>>

EncryptMessage(p, texts) ==
    /\ groups[p] # NoGroup
    /\ \E plaintext \in texts, sender \in Identity :
         LET o == encrypt_message(groups[p], plaintext, sender) IN
         /\ groups' = [groups EXCEPT ![p] = o.group]
         /\ last' = Record("encrypt_message", p, <<plaintext, sender>>, o)
         /\ outbox' = Publish(p, o)
    /\ UNCHANGED <<overflow_checks, rng, removals, accepted, ffi>>

DecryptMessage(p, messages) ==
    /\ groups[p] # NoGroup
    /\ \E ciphertext_data \in messages :
         LET o == decrypt_message(groups[p], ciphertext_data) IN
         /\ groups' = [groups EXCEPT ![p] = o.group]
         /\ last' = Record("decrypt_message", p, ciphertext_data, o)
    /\ UNCHANGED <<outbox, overflow_checks, rng, removals, accepted, ffi>>

\* ---------------------------------------------------------- FFI layer
\* the threads that call into the library
Thread == {"T1", "T2"}
\* Option<String>
None == <<>>
Some(error) == <<error>>
\* what an entry point reports when it fails
ErrorTexts == {"Client is null", "Invalid state: Unexpected epoch"}

\* an FFI entry point begins: clear_last_error()
Enter(t) ==
    /\ threads[t].pc # "entered"
    /\ LAST_ERROR' = None
    /\ threads' = [threads EXCEPT ![t] = [pc |-> "entered", error |-> None,
                                          seen |-> None]]
    /\ UNCHANGED core

\* the entry point returns 0
ReturnOk(t) ==
    /\ threads[t].pc = "entered"
    /\ threads' = [threads EXCEPT ![t].pc = "idle"]
    /\ UNCHANGED <<LAST_ERROR, core>>

\* the entry point fails: set_last_error(e), return -1
ReturnError(t) ==
    /\ threads[t].pc = "entered"
    /\ \E e \in ErrorTexts :
         /\ LAST_ERROR' = Some(e)
         /\ threads' = [threads EXCEPT ![t].pc = "failed",
                                       ![t].error = Some(e)]
    /\ UNCHANGED core

\* marmot_get_last_error() after the thread's own failed call
marmot_get_last_error(t) ==
    /\ threads[t].pc = "failed"
    /\ threads' = [threads EXCEPT ![t].pc = "read", ![t].seen = LAST_ERROR]
    /\ UNCHANGED <<LAST_ERROR, core>>

Init ==
    /\ groups = [p \in Party |-> NoGroup]
    /\ outbox = [p \in Party |-> Nothing]
    /\ last = [op |-> "init", party |-> "", arg |-> <<>>, res |-> Ok,
               out |-> <<>>]
    /\ overflow_checks \in BOOLEAN
    /\ rng = 1
    /\ removals = {}
    /\ accepted = [p \in Party |-> {}]
    /\ LAST_ERROR = None
    /\ threads = [t \in Thread |-> [pc |-> "idle", error |-> None,
                                    seen |-> None]]

\* one session, fed its own artifacts and bytes from outside
Next ==
    \E p \in {"A"} :
        \/ Create(p)
        \/ FromWelcome(p, InFlight \cup ForgedWelcomes)
        \/ ImportState(p, TamperedStates \cup {NotJson})
        \/ ExportState(p)
        \/ AddMember(p)
        \/ RemoveMember(p)
        \/ UpdateKeys(p)
        \/ ProcessCommit(p, InFlight \cup ForgedCommits(groups[p]) \cup {NotJson})
        \/ EncryptMessage(p, Texts)
        \/ DecryptMessage(p, InFlight \cup ForgedMessages \cup {NotJson})

Spec == Init /\ [][Next]_vars

\* two parties: A creates the group, B joins it; the artifacts are the
\* library's own, besides one forged Commit
ProtocolNext ==
    \/ Create("A")
    \/ \E p \in Party :
        \/ FromWelcome(p, InFlight)
        \/ AddMember(p)
        \/ RemoveMember(p)
        \/ UpdateKeys(p)
        \/ ProcessCommit(p, InFlight \cup NextEpochCommits(groups[p]))
        \/ EncryptMessage(p, ShortTexts)
        \/ DecryptMessage(p, InFlight)

ProtocolSpec == Init /\ [][ProtocolNext]_vars

\* the two parties with nothing but the library's own artifacts
GenuineNext ==
    \/ Create("A")
    \/ \E p \in Party :
        \/ FromWelcome(p, InFlight)
        \/ AddMember(p)
        \/ RemoveMember(p)
        \/ UpdateKeys(p)
        \/ ProcessCommit(p, InFlight)

GenuineSpec == Init /\ [][GenuineNext]_vars

\* the two parties, each Group keeping the record of what it applied; a
\* Commit stays deliverable after it was applied, and B may instead hold a
\* Group at the largest epoch
ReplayNext ==
    \/ Create("A")
    \/ FromWelcome("B", ForgedWelcomes)
    \/ \E p \in Party :
        \/ FromWelcome(p, InFlight)
        \/ AddMember(p)
        \/ RemoveMember(p)
        \/ UpdateKeys(p)
        \/ ProcessCommitRecorded(p, InFlight \cup NextEpochCommits(groups[p]))

ReplaySpec == Init /\ [][ReplayNext]_vars

\* threads calling FFI entry points, their steps interleaved
FfiNext ==
    \E t \in Thread :
        \/ Enter(t)
        \/ ReturnOk(t)
        \/ ReturnError(t)
        \/ marmot_get_last_error(t)

FfiSpec == Init /\ [][FfiNext]_vars

TypeOK ==
    /\ \A p \in Party : groups[p] = NoGroup \/ groups[p].epoch \in 0..U64_MAX
    /\ \A p \in Party : outbox[p].syntax \in {"none", "object"}

\* ---------------------------------------------------------------- claims
MutatingOps == {"add_member", "remove_member", "update_keys", "process_commit"}
GroupOps == MutatingOps \cup {"encrypt_message", "decrypt_message"}

\* C1: a successful add_member, remove_member, update_keys or process_commit
\* leaves the epoch at its value before plus exactly 1; a failed one leaves
\* the epoch as it was.
C1_EpochPlusOne ==
    [][ last'.op \in MutatingOps =>
          LET before == groups[last'.party].epoch
              after == groups'[last'.party].epoch
          IN  /\ last'.res.kind = "Ok" => after = before + 1
              /\ last'.res.kind \in ErrorKinds => after = before ]_vars

\* C2: whenever one of the six operations on a Group returns an error, all
\* six fields of the Group are what they were before the call.
C2_AllOrNothing ==
    [][ (last'.op \in GroupOps /\ last'.res.kind \in ErrorKinds) =>
          groups'[last'.party] = groups[last'.party] ]_vars

\* a Commit for the wrong epoch has just been refused
C2_Witness ==
    /\ last.op = "process_commit"
    /\ last.res.kind = "InvalidState"
    /\ last.res.msg[1] = "Unexpected epoch"

\* C3: in every reachable state the application_secret of a Group is
\* derive_application_secret of its current group_secret and epoch.
C3_ApplicationSecretDerived ==
    \A p \in Party :
        groups[p] # NoGroup =>
            groups[p].application_secret =
                derive_application_secret(groups[p].group_secret,
                                          groups[p].epoch)

NoDuplicates(members) ==
    \A i, j \in 1..Len(members) : members[i] = members[j] => i = j

\* C4: in every reachable state the members list of a Group holds no
\* identity twice.
C4_MembersDistinct ==
    \A p \in Party : groups[p] # NoGroup => NoDuplicates(groups[p].members)

\* s is base, or comes from base by derive_next_secret steps
RECURSIVE DerivedFrom(_, _)
DerivedFrom(s, base) ==
    \/ s = base
    \/ /\ ChainLen(s) > ChainLen(base)
       /\ DerivedFrom(s.sha256[1], base)

\* C5: a party removed by remove_member never holds, through the library's
\* operations on the Group it had, the group_secret or application_secret
\* the remaining members hold after the removal or at a later epoch.
C5_RemovedCannotDerive ==
    \A r \in removals :
        groups[r.who] # NoGroup =>
            /\ ~DerivedFrom(groups[r.who].group_secret, r.group_secret)
            /\ groups[r.who].application_secret # r.application_secret

\* C6: after a successful remove_member the group_secret differs from the
\* one before, and the application secret derived from the old group_secret
\* at the new epoch differs from the new application_secret.
C6_RemovalChangesSecrets ==
    [][ (last'.op = "remove_member" /\ last'.res.kind = "Ok") =>
          LET old == groups[last'.party]
              new == groups'[last'.party]
          IN  /\ new.group_secret # old.group_secret
              /\ derive_application_secret(old.group_secret, new.epoch)
                    # new.application_secret ]_vars

\* a member has just been removed
C6_Witness ==
    /\ last.op = "remove_member"
    /\ last.res.kind = "Ok"
    /\ last.arg = "B"

\* C7: when add_member(g, B) returns a Welcome, from_welcome on it as B
\* succeeds with a Group equal to the issuer's Group after the add in
\* group_id, name, epoch, members, group_secret and application_secret.
C7_JoinerEqualsIssuer ==
    (last.op = "add_member" /\ last.res.kind = "Ok") =>
        LET parsed == from_slice(last.out, WelcomeDataFields)
            joined == from_welcome(parsed.value, last.arg)
        IN  /\ parsed.ok
            /\ joined.res = Ok
            /\ joined.group = groups[last.party]

\* B has just been added to a Group it was not in
C7_Witness ==
    /\ last.op = "add_member"
    /\ last.res.kind = "Ok"
    /\ last.arg = "B"
    /\ groups[last.party].members = <<"A", "B">>

\* C8: encrypt_message for a sender in members succeeds, and decrypt_message
\* on what it returned, on the same Group, returns the sender, the plaintext
\* and the Group's epoch.
C8_RoundTrip ==
    (/\ last.op = "encrypt_message"
     /\ contains(groups[last.party].members, last.arg[2])) =>
        LET g == groups[last.party] IN
        /\ last.res = Ok
        /\ decrypt_message(g, last.out) =
               Outcome(Ok, g, <<last.arg[2], last.arg[1], g.epoch>>)

\* C9: encrypt_message for a sender not in members fails with NotMember, and
\* so does decrypt_message on a well-formed message whose sender is not in
\* the Group's members, as when the sender has since been removed.
C9_NonMemberRejected ==
    /\ (/\ last.op = "encrypt_message"
        /\ ~contains(groups[last.party].members, last.arg[2])) =>
           last.res = NotMember
    /\ (/\ last.op = "decrypt_message"
        /\ from_slice(last.arg, EncryptedMessageFields).ok
        /\ ~contains(groups[last.party].members,
                     from_slice(last.arg, EncryptedMessageFields)
                         .value.sender_public_key)) =>
           last.res = NotMember

\* a message B sent as a member is refused by a Group B was removed from
C9_Witness ==
    /\ last.op = "decrypt_message"
    /\ last.res = NotMember
    /\ last.arg \in InFlight
    /\ from_slice(last.arg, EncryptedMessageFields).value.sender_public_key
          = "B"
    /\ \E r \in removals : r.who = "B"

\* C10: add_member with an identity already in members fails with
\* AlreadyMember and leaves members, epoch, group_secret and
\* application_secret unchanged.
C10_AlreadyMember ==
    [][ (/\ last'.op = "add_member"
         /\ contains(groups[last'.party].members, last'.arg)) =>
          /\ last'.res = AlreadyMember
          /\ groups'[last'.party] = groups[last'.party] ]_vars

\* a member has just been added again
C10_Witness ==
    /\ last.op = "add_member"
    /\ last.res = AlreadyMember

\* the Commit a process_commit step was handed, as deserialized
Handed(commit_data) == from_slice(commit_data, CommitDataFields)

\* C11: remove_member with an identity absent from members fails with
\* MemberNotFound and changes no field of the Group.
C11_MemberNotFound ==
    [][ (/\ last'.op = "remove_member"
         /\ ~contains(groups[last'.party].members, last'.arg)) =>
          /\ last'.res = MemberNotFound(last'.arg)
          /\ groups'[last'.party] = groups[last'.party] ]_vars

\* the removal of an identity that is not a member has just been refused
C11_Witness ==
    /\ last.op = "remove_member"
    /\ last.res.kind = "MemberNotFound"
    /\ ~contains(groups[last.party].members, last.arg)

\* C12: process_commit with a Commit whose epoch is not the Group's epoch
\* plus 1 (equal, lower, or further ahead) fails with the epoch-mismatch
\* InvalidState error and leaves every field of the Group unchanged.
C12_WrongEpochRejected ==
    [][ (/\ last'.op = "process_commit"
         /\ Handed(last'.arg).ok
         /\ Handed(last'.arg).value.epoch # groups[last'.party].epoch + 1) =>
          /\ last'.res.kind = "InvalidState"
          /\ (Handed(last'.arg).value.group_id = groups[last'.party].group_id
                => last'.res.msg[1] = "Unexpected epoch")
          /\ groups'[last'.party] = groups[last'.party] ]_vars

\* C13: process_commit with a Commit whose group_id is not the Group's fails
\* with InvalidState and leaves every field of the Group unchanged, whatever
\* the Commit's epoch.
C13_WrongGroupRejected ==
    [][ (/\ last'.op = "process_commit"
         /\ Handed(last'.arg).ok
         /\ Handed(last'.arg).value.group_id # groups[last'.party].group_id) =>
          /\ last'.res = InvalidState(<<"Group ID mismatch">>)
          /\ groups'[last'.party] = groups[last'.party] ]_vars

\* a Commit of another group for the next epoch has just been refused
C13_Witness ==
    /\ last.op = "process_commit"
    /\ last.res = InvalidState(<<"Group ID mismatch">>)
    /\ Handed(last.arg).value.epoch = groups[last.party].epoch + 1

\* C14: export_state succeeds on every Group and leaves it unchanged, and
\* import_state on the bytes it returned yields a Group equal to it in
\* group_id, name, epoch, members, group_secret and application_secret.
C14_ExportImport ==
    [][ last'.op = "export_state" =>
          LET g == groups[last'.party] IN
          /\ last'.res = Ok
          /\ groups'[last'.party] = g
          /\ import_state(last'.out) = Outcome(Ok, g, <<>>) ]_vars

\* a Group of two members past its first epoch has just been exported
C14_Witness ==
    /\ last.op = "export_state"
    /\ groups[last.party].epoch > 0
    /\ Len(groups[last.party].members) = 2
    /\ ChainLen(groups[last.party].group_secret) > 0

IssuingOps == {"add_member", "remove_member", "update_keys"}

\* C15: every successful add_member, remove_member and update_keys returns a
\* Commit that carries the issuer's group_id, the issuer's epoch after the
\* operation and the identity it added or removed.
C15_CommitProduced ==
    (last.op \in IssuingOps /\ last.res.kind = "Ok") =>
        LET c == Handed(last.out)
            g == groups[last.party]
        IN  /\ c.ok
            /\ c.value.group_id = g.group_id
            /\ c.value.epoch = g.epoch
            /\ c.value.added_members =
                  (IF last.op = "add_member" THEN <<last.arg>> ELSE <<>>)
            /\ c.value.removed_members =
                  (IF last.op = "remove_member" THEN <<last.arg>> ELSE <<>>)

\* C16: when a member's Group equals the issuer's in group_id, epoch,
\* members and group_secret before a remove_member or update_keys, then
\* process_commit on it with the Commit returned succeeds and leaves it with
\* the issuer's epoch, members, group_secret and application_secret, and it
\* decrypts what the issuer then encrypts to the same plaintext.
C16_ReceiverFollowsIssuer ==
    [][ (last'.op \in {"remove_member", "update_keys"}
           /\ last'.res.kind = "Ok") =>
          \A as \in {groups[last'.party].application_secret, RawBytes(<<>>)} :
            LET receiver == [groups[last'.party] EXCEPT
                               !.application_secret = as]
                issuer == groups'[last'.party]
                o == process_commit(receiver, last'.out)
            IN  /\ o.res = Ok
                /\ o.group.epoch = issuer.epoch
                /\ o.group.members = issuer.members
                /\ o.group.group_secret = issuer.group_secret
                /\ o.group.application_secret = issuer.application_secret
                /\ \A plaintext \in Texts, sender \in Identity :
                      LET e == encrypt_message(issuer, plaintext, sender) IN
                      e.res = Ok =>
                          decrypt_message(o.group, e.out) =
                              Outcome(Ok, o.group,
                                      <<sender, plaintext, issuer.epoch>>) ]_vars

\* C17: when every Group descends from one create through the Welcomes of
\* add_member and the Commits of remove_member and update_keys, two parties'
\* Groups of the same group_id and epoch have the same members and the same
\* group_secret.
C17_EpochIdentifiesVersion ==
    \A p, q \in Party :
        (/\ groups[p] # NoGroup
         /\ groups[q] # NoGroup
         /\ groups[p].group_id = groups[q].group_id
         /\ groups[p].epoch = groups[q].epoch) =>
            /\ groups[p].members = groups[q].members
            /\ groups[p].group_secret = groups[q].group_secret

\* C18: the epoch of a Group is 0 after create and no operation ever leaves
\* it smaller than it was, a Group at the largest 64-bit epoch included.
C18_EpochNeverDecreases ==
    [][ /\ (last'.op = "create" => groups'[last'.party].epoch = 0)
        /\ \A p \in Party :
              (groups[p] # NoGroup /\ groups'[p] # NoGroup) =>
                  groups'[p].epoch >= groups[p].epoch ]_vars

\* C19: a Commit is applied to a Group at most once and at most one Commit
\* is applied per target epoch: process_commit of a Commit the Group has
\* applied before fails and leaves the Group unchanged, a successful
\* process_commit is never of a Commit for an epoch the Group has applied a
\* Commit for, and never of the Commit the Group's own operation returned.
C19_NoReplay ==
    [][ last'.op = "process_commit" =>
          LET p == last'.party IN
          /\ last'.arg \in accepted[p] =>
                /\ last'.res.kind \in ErrorKinds
                /\ groups'[p] = groups[p]
          /\ last'.res.kind = "Ok" =>
                /\ \A c \in accepted[p] :
                      Handed(c).value.epoch # Handed(last'.arg).value.epoch
                /\ last'.arg # outbox[p] ]_vars

\* a Commit the Group had applied has just been refused
C19_Witness ==
    /\ last.op = "process_commit"
    /\ last.res.kind = "InvalidState"
    /\ last.arg \in accepted[last.party]

\* the members that are not among removed_members, in their order
Kept(members, removed_members) ==
    SelectSeq(members, LAMBDA m : ~contains(removed_members, m))

\* the identities of added_members that are not in members, each once, in
\* the order of their first occurrence
Fresh(members, added_members) ==
    LET first(i) == /\ ~contains(members, added_members[i])
                    /\ \A j \in 1..(i - 1) :
                          added_members[j] # added_members[i]
        at == SelectSeq([i \in 1..Len(added_members) |-> i], first)
    IN  [k \in 1..Len(at) |-> added_members[at[k]]]

\* C20: a successful process_commit leaves members as the old members
\* without the identities of removed_members, followed by the identities of
\* added_members not already there; epoch as the Commit's; group_secret as
\* derive_next_secret of the old one, once; application_secret derived from
\* the new group_secret and epoch; group_id and name as they were.
C20_CommitApplied ==
    [][ (last'.op = "process_commit" /\ last'.res.kind = "Ok") =>
          LET old == groups[last'.party]
              new == groups'[last'.party]
              commit == Handed(last'.arg).value
              kept == Kept(old.members, commit.removed_members)
          IN  /\ new.members = kept \o Fresh(kept, commit.added_members)
              /\ new.epoch = commit.epoch
              /\ new.group_secret = derive_next_secret(old.group_secret)
              /\ new.application_secret =
                    derive_application_secret(new.group_secret, new.epoch)
              /\ new.group_id = old.group_id
              /\ new.name = old.name ]_vars

\* a Commit naming B twice among the added has been applied: B is a member
\* once
C20_Witness ==
    /\ last.op = "process_commit"
    /\ last.res.kind = "Ok"
    /\ Handed(last.arg).value.added_members = <<"B", "B">>
    /\ groups[last.party].members = <<"A", "B">>

\* C21: a successful add_member(g, id) leaves members as the old members
\* followed by id, group_secret as derive_next_secret of the old one, and
\* returns a Welcome whose group_id, group_name, epoch, members and
\* group_secrets are the Group's values after the operation.
C21_AddMemberEffect ==
    [][ (last'.op = "add_member" /\ last'.res.kind = "Ok") =>
          LET old == groups[last'.party]
              new == groups'[last'.party]
              parsed == from_slice(last'.out, WelcomeDataFields)
              welcome == parsed.value
          IN  /\ new.members = old.members \o <<last'.arg>>
              /\ new.group_secret = derive_next_secret(old.group_secret)
              /\ parsed.ok
              /\ welcome.group_id = new.group_id
              /\ welcome.group_name = new.name
              /\ welcome.epoch = new.epoch
              /\ welcome.members = new.members
              /\ welcome.group_secrets = new.group_secret
              /\ welcome.group_secrets # old.group_secret ]_vars

\* an identity has been added behind the members there were, and the
\* Welcome carries the epoch reached
C21_Witness ==
    /\ last.op = "add_member"
    /\ last.res.kind = "Ok"
    /\ Len(groups[last.party].members) >= 2
    /\ groups[last.party].members[Len(groups[last.party].members)] = last.arg
    /\ from_slice(last.out, WelcomeDataFields).value.epoch
          = groups[last.party].epoch

\* C22: a successful remove_member(g, id) leaves members as the old members
\* without id, the others in their order, group_secret as
\* derive_next_secret of the old one, and returns a Commit whose
\* removed_members is <<id>>, whose added_members is empty and whose epoch
\* is the Group's new epoch.
C22_RemoveMemberEffect ==
    [][ (last'.op = "remove_member" /\ last'.res.kind = "Ok") =>
          LET old == groups[last'.party]
              new == groups'[last'.party]
              commit == Handed(last'.out)
          IN  /\ new.members = Kept(old.members, <<last'.arg>>)
              /\ new.group_secret = derive_next_secret(old.group_secret)
              /\ commit.ok
              /\ commit.value.removed_members = <<last'.arg>>
              /\ commit.value.added_members = <<>>
              /\ commit.value.epoch = new.epoch ]_vars

\* C23: update_keys succeeds on every Group and advances its epoch by one;
\* it leaves group_id, name and members unchanged, sets group_secret to
\* derive_next_secret of the old one, and returns a Commit with no removed
\* and no added members whose epoch is the new epoch.
C23_UpdateKeysEffect ==
    [][ last'.op = "update_keys" =>
          LET old == groups[last'.party]
              new == groups'[last'.party]
              commit == Handed(last'.out)
          IN  /\ last'.res = Ok
              /\ new.epoch = old.epoch + 1
              /\ new.group_id = old.group_id
              /\ new.name = old.name
              /\ new.members = old.members
              /\ new.group_secret = derive_next_secret(old.group_secret)
              /\ commit.ok
              /\ commit.value.removed_members = <<>>
              /\ commit.value.added_members = <<>>
              /\ commit.value.epoch = new.epoch ]_vars

MessagingOps == {"encrypt_message", "decrypt_message"}

\* C24: encrypt_message and decrypt_message leave every field of the Group
\* as it was, whether they succeed or fail.
C24_MessagingKeepsGroup ==
    [][ last'.op \in MessagingOps =>
          groups'[last'.party] = groups[last'.party] ]_vars

\* a Group past its first epoch has encrypted or decrypted a message
C24_Witness ==
    /\ last.op \in MessagingOps
    /\ last.res.kind = "Ok"
    /\ last.out # <<>>
    /\ groups[last.party].epoch > 0

\* C25: once a Group exists, no operation on it changes its group_id or its
\* name.
C25_GroupIdFixed ==
    [][ \A p \in Party :
          groups[p] # NoGroup =>
              /\ groups'[p] # NoGroup
              /\ groups'[p].group_id = groups[p].group_id
              /\ groups'[p].name = groups[p].name ]_vars

\* a Group has applied a Commit and kept the group_id it was created with
C25_Witness ==
    /\ last.op = "process_commit"
    /\ last.res.kind = "Ok"
    /\ groups[last.party].group_id = OsRng(1)
    /\ groups[last.party].name = "Test"

\* C26: from_welcome fails with NotMember and gives no Group when the joiner
\* is not in welcome.members; otherwise it gives a Group with the Welcome's
\* group_id, name, epoch, members and group_secret and the application_secret
\* derived from that group_secret and epoch.
C26_FromWelcomeEffect ==
    [][ last'.op = "from_welcome" =>
          LET welcome == from_slice(last'.arg[1], WelcomeDataFields).value
              joiner == last'.arg[2]
              new == groups'[last'.party]
          IN  IF ~contains(welcome.members, joiner)
                THEN last'.res = NotMember /\ new = NoGroup
                ELSE /\ last'.res = Ok
                     /\ new.group_id = welcome.group_id
                     /\ new.name = welcome.group_name
                     /\ new.epoch = welcome.epoch
                     /\ new.members = welcome.members
                     /\ new.group_secret = welcome.group_secrets
                     /\ new.application_secret =
                           derive_application_secret(welcome.group_secrets,
                                                     welcome.epoch) ]_vars

\* a Welcome that does not name the joiner has been refused
C26_Witness ==
    /\ last.op = "from_welcome"
    /\ last.res = NotMember
    /\ groups[last.party] = NoGroup

\* the plaintexts, and the text "a"
Probes == Texts \cup { <<97>> }

\* q holds a Group of p's group at another epoch, and sender is a member of
\* both
OtherEpoch(p, q, sender) ==
    /\ groups[p] # NoGroup
    /\ groups[q] # NoGroup
    /\ groups[p].group_id = groups[q].group_id
    /\ groups[p].epoch # groups[q].epoch
    /\ contains(groups[p].members, sender)
    /\ contains(groups[q].members, sender)

\* the two secrets have the same byte at each of the first n positions the
\* cipher uses
SameKeyBytes(s, t, n) ==
    XorWithSecret([j \in 1..n |-> 0], SecretBytes(s))
        = XorWithSecret([j \in 1..n |-> 0], SecretBytes(t))

\* C27: for a message a member encrypted at an epoch that is not the
\* receiving Group's, decrypt_message raises no epoch-mismatch error, and
\* when it returns a plaintext this is not the original plaintext and the
\* epoch returned is the message's, not the Group's.
C27_WrongEpochGarbage ==
    \A p, q \in Party, sender \in Identity, plaintext \in Probes :
        OtherEpoch(p, q, sender) =>
            LET e == encrypt_message(groups[p], plaintext, sender)
                d == decrypt_message(groups[q], e.out)
            IN  /\ e.res = Ok
                /\ d.res.kind # "InvalidState"
                /\ d.res.kind = "Ok" =>
                      /\ d.out[2] # plaintext
                      /\ d.out[3] = groups[p].epoch

\* C27 as amended: the same, but the plaintext returned differs from the
\* original exactly when the two epochs' application secrets differ in a
\* byte the plaintext is XORed with; an empty plaintext comes back as it is.
C27_WrongEpochXor ==
    \A p, q \in Party, sender \in Identity, plaintext \in Probes :
        OtherEpoch(p, q, sender) =>
            LET e == encrypt_message(groups[p], plaintext, sender)
                d == decrypt_message(groups[q], e.out)
            IN  /\ e.res = Ok
                /\ d.res.kind # "InvalidState"
                /\ d.res.kind = "Ok" =>
                      /\ (d.out[2] = plaintext) <=>
                            SameKeyBytes(groups[p].application_secret,
                                         groups[q].application_secret,
                                         Len(plaintext))
                      /\ d.out[3] = groups[p].epoch
                /\ plaintext = <<>> => d.out = <<sender, <<>>, groups[p].epoch>>

\* a message of another epoch is decrypted to a plaintext that is not the
\* one encrypted
C27_Witness ==
    \E p, q \in Party, sender \in Identity, plaintext \in Probes :
        /\ OtherEpoch(p, q, sender)
        /\ LET e == encrypt_message(groups[p], plaintext, sender)
               d == decrypt_message(groups[q], e.out)
           IN  /\ d.res.kind = "Ok"
               /\ d.out[2] # plaintext
               /\ d.out[3] # groups[q].epoch

\* C28: the message a thread reads with marmot_get_last_error after its own
\* failed call is the error of that call, whatever other threads called in
\* between.
C28_LastErrorPerThread ==
    \A t \in Thread :
        threads[t].pc = "read" => threads[t].seen = threads[t].error

\* the secret a chain of derive_next_secret steps started from
RECURSIVE Root(_)
Root(s) ==
    IF "sha256" \in DOMAIN s /\ Len(s.sha256) = 2
      THEN Root(s.sha256[1])
      ELSE s

\* derive_next_secret applied n times to s
RECURSIVE NextSecretTimes(_, _)
NextSecretTimes(s, n) ==
    IF n = 0 THEN s ELSE derive_next_secret(NextSecretTimes(s, n - 1))

\* C29: when all Groups descend from one create with secret s0, through
\* Welcomes of add_member and accepted Commits, genuine or forged, a Group
\* at epoch e has group_secret derive_next_secret applied e times to s0, and
\* two Groups at the same epoch have the same application_secret.
C29_SecretFollowsEpoch ==
    \A p, q \in Party :
        (groups[p] # NoGroup /\ groups[q] # NoGroup) =>
            /\ groups[p].group_secret =
                  NextSecretTimes(Root(groups[q].group_secret),
                                  groups[p].epoch)
            /\ groups[p].epoch = groups[q].epoch =>
                  groups[p].application_secret = groups[q].application_secret

\* both parties stand at the second epoch with the same secrets and other
\* members, one of them by a forged Commit
C29_Witness ==
    /\ groups["A"] # NoGroup
    /\ groups["B"] # NoGroup
    /\ groups["A"].epoch = 2
    /\ groups["B"].epoch = 2
    /\ groups["A"].members # groups["B"].members
    /\ groups["A"].application_secret = groups["B"].application_secret
    /\ last.op = "process_commit"
    /\ last.arg \notin InFlight

\* C30: process_commit reports the first failure in a fixed order: bytes
\* that are not a Commit give SerializationError; otherwise another group_id
\* gives InvalidState for the group id, also when the epoch is wrong too;
\* otherwise an epoch that is not the Group's plus 1 gives InvalidState for
\* the epoch; in all three cases the Group is unchanged.
C30_CheckOrder ==
    [][ last'.op = "process_commit" =>
          LET g == groups[last'.party]
              handed == Handed(last'.arg)
          IN  IF ~handed.ok
                THEN /\ last'.res.kind = "SerializationError"
                     /\ groups'[last'.party] = g
              ELSE IF handed.value.group_id # g.group_id
                THEN /\ last'.res = InvalidState(<<"Group ID mismatch">>)
                     /\ groups'[last'.party] = g
              ELSE IF handed.value.epoch # g.epoch + 1
                THEN /\ last'.res.kind = "InvalidState"
                     /\ last'.res.msg[1] = "Unexpected epoch"
                     /\ groups'[last'.party] = g
              ELSE TRUE ]_vars

\* C31: remove_member succeeds for every identity present in members, the
\* last member and the local party included, so that members can become
\* empty; on a Group with empty members every encrypt_message and every
\* decrypt_message fails with NotMember, while add_member, update_keys and
\* process_commit of a Commit for the next epoch of the group succeed and
\* advance the epoch by one.
C31_EmptyGroup ==
    [][ last'.op \in MutatingOps \cup MessagingOps =>
          LET old == groups[last'.party]
              new == groups'[last'.party]
              handed == Handed(last'.arg)
          IN  /\ (last'.op = "remove_member"
                    /\ contains(old.members, last'.arg)) =>
                     last'.res = Ok
              /\ (last'.op \in MessagingOps /\ old.members = <<>>) =>
                     last'.res = NotMember
              /\ (last'.op \in {"add_member", "update_keys"}
                    /\ old.members = <<>>) =>
                     /\ last'.res = Ok
                     /\ new.epoch = old.epoch + 1
              /\ (last'.op = "process_commit" /\ old.members = <<>>
                    /\ handed.ok
                    /\ handed.value.group_id = old.group_id
                    /\ handed.value.epoch = old.epoch + 1) =>
                     /\ last'.res = Ok
                     /\ new.epoch = old.epoch + 1 ]_vars

====
